---------------------------- MODULE Spec2Model ----------------------------
(***************************************************************************)
(* A model of src/app/app.c: a process that rewrites a file with an        *)
(* incrementing counter once per second until SIGINT, SIGHUP or SIGTERM    *)
(* is caught, and then reports the signal on standard error.               *)
(*                                                                         *)
(* The main thread is modelled statement by statement (pc = "l<line>").    *)
(* Signals are delivered between any two statements.  Text streams are     *)
(* sequences of tokens: the literal fragments of the format strings and    *)
(* the characters produced by the %d conversion.                           *)
(***************************************************************************)
EXTENDS Integers, Sequences, FiniteSets, TLC

(***************************************************************************)
(* Bounds of the model.                                                    *)
(***************************************************************************)
\* width of `int` in bits (32 in the build; small here so that the counter
\* reaches INT_MAX and two-digit values are printed)
IntBits == 5
\* number of signals the environment delivers in one run
MaxSignals == 3
\* largest argc of a run (argc = 1: no argument, argc = 3: two arguments)
MaxArgc == 3

IntRange == 2 ^ IntBits
INT_MAX == 2 ^ (IntBits - 1) - 1
INT_MIN == -(2 ^ (IntBits - 1))
\* the loop is followed for two cycles past the counter's overflow
MaxCycles == INT_MAX + 3

(***************************************************************************)
(* Program constants.                                                      *)
(***************************************************************************)
SIGHUP == 1
SIGINT == 2
SIGQUIT == 3
SIGTERM == 15
SIGWINCH == 28
EXIT_SUCCESS == 0
EXIT_FAILURE == 1

\* the signals lines 21-23 install interrupt_handler for
Recognized == {SIGINT, SIGHUP, SIGTERM}

\* the signals the environment may deliver
Signals == {SIGHUP, SIGINT, SIGQUIT, SIGTERM, SIGWINCH}

\* what a signal does when no handler was installed for it (signal.h):
\* SIGWINCH is discarded, the others terminate the process
DefaultAction(sig) == IF sig = SIGWINCH THEN "ignore" ELSE "terminate"

(***************************************************************************)
(* Text: the %d conversion, and its inverse for reading the output back.   *)
(***************************************************************************)
Digits == <<"0", "1", "2", "3", "4", "5", "6", "7", "8", "9">>

RECURSIVE DecNat(_)
DecNat(n) ==
    IF n < 10 THEN <<Digits[n + 1]>>
    ELSE DecNat(n \div 10) \o <<Digits[(n % 10) + 1]>>

\* printf's %d of an int
FormatD(n) == IF n < 0 THEN <<"-">> \o DecNat(-n) ELSE DecNat(n)

\* printf's "%d\n"
FormatLine(n) == FormatD(n) \o <<"\n">>

\* `state ++` on an int of IntBits bits: two's-complement wrap-around
WrapInt(n) == ((n - INT_MIN) % IntRange) + INT_MIN

\* fopen(path, "a"): the file keeps what it holds
OpenedForAppend(f) == [exists |-> TRUE, data |-> f.data]

\* fopen(path, "w") creates the file or truncates it to length zero
Truncated(f) == [exists |-> TRUE, data |-> <<>>]

\* the stream's buffer is dropped
Dropped(f, buf) == [exists |-> TRUE, data |-> f.data]

\* the stream's buffer reaches the file
Flushed(f, buf) == [exists |-> TRUE, data |-> f.data \o buf]

VARIABLES
    argc,           \* main's argc
    pc,             \* the line main is about to execute
    proc,           \* "running", "exited" (return from main), "killed"
    termsig,        \* the signal that killed the process, 0 if none did
    exitStatus,     \* main's return value, -1 while there is none
    handlers,       \* the signals interrupt_handler is installed for
    caught_signal,  \* the static int of line 8
    state,          \* main's counter
    arg,            \* the value of the expression `state ++` of line 29
    checked,        \* the value of caught_signal loaded by line 26
    fp,             \* the stream of line 27: "closed" or "open"
    fbuf,           \* what the stream holds that has not reached the file
    file,           \* the target file: [exists, data]
    stdout,         \* everything written to standard output
    stderr,         \* everything written to standard error
    fileLog,        \* history: everything written to the stream fp
    nsig,           \* history: number of signals delivered
    firstCaught,    \* history: the first signal the handler recorded
    caughtOpen,     \* history: the handler has run while fp was open
    opensAfter      \* history: fopen calls since caught_signal became set

vars == <<argc, pc, proc, termsig, exitStatus, handlers, caught_signal, state, arg,
          checked, fp, fbuf, file, stdout, stderr, fileLog, nsig,
          firstCaught, caughtOpen, opensAfter>>

\* the target file before the run: absent, or left by somebody else
InitialFiles ==
    { [exists |-> FALSE, data |-> <<>>],
      [exists |-> TRUE, data |-> <<"7", "\n", "8", "\n">>] }

Init ==
    /\ argc \in 1..MaxArgc
    /\ pc = "l16"
    /\ proc = "running"
    /\ termsig = 0
    /\ exitStatus = -1
    /\ handlers = {}
    /\ caught_signal = 0
    /\ state = 0
    /\ arg = 0
    /\ checked = 0
    /\ fp = "closed"
    /\ fbuf = <<>>
    /\ file \in InitialFiles
    /\ stdout = <<>>
    /\ stderr = <<>>
    /\ fileLog = <<>>
    /\ nsig = 0
    /\ firstCaught = 0
    /\ caughtOpen = FALSE
    /\ opensAfter = 0

sigVars == <<termsig, caught_signal, nsig, firstCaught, caughtOpen>>
ioVars == <<fp, fbuf, file, stdout, stderr, fileLog, opensAfter>>
cpuVars == <<state, arg, checked>>

At(l) == proc = "running" /\ pc = l

NumLines(text) == Len(SelectSeq(text, LAMBDA t : t = "\n"))

(***************************************************************************)
(* main                                                                    *)
(***************************************************************************)
\* the test written as `argc < 2`: extra arguments are let through
CheckArgsTooFew ==
    /\ At("l16")
    /\ pc' = IF argc < 2 THEN "l17" ELSE "l21"
    /\ UNCHANGED <<argc, proc, exitStatus, handlers>>
    /\ UNCHANGED <<sigVars, ioVars, cpuVars>>

\* line 16: if (argc != 2)
CheckArgs ==
    /\ At("l16")
    /\ pc' = IF argc # 2 THEN "l17" ELSE "l21"
    /\ UNCHANGED <<argc, proc, exitStatus, handlers>>
    /\ UNCHANGED <<sigVars, ioVars, cpuVars>>

\* line 17: fprintf(stderr, "usage: %s <file>\n", argv[0])
Usage ==
    /\ At("l17")
    /\ stderr' = stderr \o <<"usage: ", "argv[0]", " <file>", "\n">>
    /\ pc' = "l18"
    /\ UNCHANGED <<argc, proc, exitStatus, handlers, sigVars, cpuVars>>
    /\ UNCHANGED <<fp, fbuf, file, stdout, fileLog, opensAfter>>

\* line 18: return EXIT_FAILURE
ReturnFailure ==
    /\ At("l18")
    /\ proc' = "exited"
    /\ exitStatus' = EXIT_FAILURE
    /\ UNCHANGED <<argc, pc, handlers, sigVars, ioVars, cpuVars>>

Install(l, sig, next) ==
    /\ At(l)
    /\ handlers' = handlers \cup {sig}
    /\ pc' = next
    /\ UNCHANGED <<argc, proc, exitStatus, sigVars, ioVars, cpuVars>>

\* line 21: signal(SIGINT, interrupt_handler)
InstallSIGINT == Install("l21", SIGINT, "l22")
\* line 22: signal(SIGHUP, interrupt_handler)
InstallSIGHUP == Install("l22", SIGHUP, "l23")
\* the third call written with SIGQUIT
InstallSIGQUIT == Install("l23", SIGQUIT, "l25")
\* line 23: signal(SIGTERM, interrupt_handler)
InstallSIGTERM == Install("l23", SIGTERM, "l25")

\* line 25: int state = 0
InitState ==
    /\ At("l25")
    /\ state' = 0
    /\ pc' = "l26"
    /\ UNCHANGED <<argc, proc, exitStatus, handlers, sigVars, ioVars>>
    /\ UNCHANGED <<arg, checked>>

\* the loop written as do ... while: the body is entered unchecked
LoopEnterUnchecked ==
    /\ At("l26")
    /\ NumLines(stdout) < MaxCycles
    /\ checked' = caught_signal
    /\ pc' = "l27"
    /\ UNCHANGED <<argc, proc, exitStatus, handlers, sigVars, ioVars>>
    /\ UNCHANGED <<state, arg>>

\* line 26: while (!caught_signal), the condition is true
LoopEnter ==
    /\ At("l26")
    /\ caught_signal = 0
    /\ NumLines(stdout) < MaxCycles
    /\ checked' = caught_signal
    /\ pc' = "l27"
    /\ UNCHANGED <<argc, proc, exitStatus, handlers, sigVars, ioVars>>
    /\ UNCHANGED <<state, arg>>

\* the loop written with a bound on the counter: it can also be left
\* with no signal caught
LoopExitUnsignalled ==
    /\ At("l26")
    /\ caught_signal # 0 \/ state >= 2
    /\ checked' = caught_signal
    /\ pc' = "l34"
    /\ UNCHANGED <<argc, proc, exitStatus, handlers, sigVars, ioVars>>
    /\ UNCHANGED <<state, arg>>

\* line 26: while (!caught_signal), the condition is false
LoopExit ==
    /\ At("l26")
    /\ caught_signal # 0
    /\ checked' = caught_signal
    /\ pc' = "l34"
    /\ UNCHANGED <<argc, proc, exitStatus, handlers, sigVars, ioVars>>
    /\ UNCHANGED <<state, arg>>

\* line 27: fp = fopen(argv[1], "w")
Fopen ==
    /\ At("l27")
    /\ fp' = "open"
    /\ fbuf' = <<>>
    /\ file' = Truncated(file)
    /\ opensAfter' = IF caught_signal # 0 THEN opensAfter + 1 ELSE opensAfter
    /\ pc' = "l28"
    /\ UNCHANGED <<argc, proc, exitStatus, handlers, sigVars, cpuVars>>
    /\ UNCHANGED <<stdout, stderr, fileLog>>

\* line 28: fprintf(stdout, "%d\n", state)
PrintStdout ==
    /\ At("l28")
    /\ stdout' = stdout \o FormatLine(state)
    /\ pc' = "l29"
    /\ UNCHANGED <<argc, proc, exitStatus, handlers, sigVars, cpuVars>>
    /\ UNCHANGED <<fp, fbuf, file, stderr, fileLog, opensAfter>>

\* the argument written as `++ state`: its value is the new counter
EvalArgPreIncrement ==
    /\ At("l29")
    /\ arg' = WrapInt(state + 1)
    /\ state' = WrapInt(state + 1)
    /\ pc' = "l29call"
    /\ UNCHANGED <<argc, proc, exitStatus, handlers, sigVars, ioVars>>
    /\ UNCHANGED checked

\* line 29, the argument `state ++`: its value is the old counter
EvalArg ==
    /\ At("l29")
    /\ arg' = state
    /\ state' = WrapInt(state + 1)
    /\ pc' = "l29call"
    /\ UNCHANGED <<argc, proc, exitStatus, handlers, sigVars, ioVars>>
    /\ UNCHANGED checked

\* line 29, the call: fprintf(fp, "%d\n", <arg>)
PrintFile ==
    /\ At("l29call")
    /\ fbuf' = fbuf \o FormatLine(arg)
    /\ fileLog' = fileLog \o FormatLine(arg)
    /\ pc' = "l30"
    /\ UNCHANGED <<argc, proc, exitStatus, handlers, sigVars, cpuVars>>
    /\ UNCHANGED <<fp, file, stdout, stderr, opensAfter>>

\* line 30 left out: the stream is not flushed before it is closed
FflushSkipped ==
    /\ At("l30")
    /\ pc' = "l31"
    /\ UNCHANGED <<argc, proc, exitStatus, handlers, sigVars, cpuVars>>
    /\ UNCHANGED <<fp, fbuf, file, stdout, stderr, fileLog, opensAfter>>

\* line 30: fflush(fp)
Fflush ==
    /\ At("l30")
    /\ file' = Flushed(file, fbuf)
    /\ fbuf' = <<>>
    /\ pc' = "l31"
    /\ UNCHANGED <<argc, proc, exitStatus, handlers, sigVars, cpuVars>>
    /\ UNCHANGED <<fp, stdout, stderr, fileLog, opensAfter>>

\* line 31: fclose(fp), which flushes what the stream still holds
Fclose ==
    /\ At("l31")
    /\ file' = Flushed(file, fbuf)
    /\ fbuf' = <<>>
    /\ fp' = "closed"
    /\ pc' = "l32"
    /\ UNCHANGED <<argc, proc, exitStatus, handlers, sigVars, cpuVars>>
    /\ UNCHANGED <<stdout, stderr, fileLog, opensAfter>>

\* line 32: sleep(1); it returns after a second or when a handler has run
Sleep ==
    /\ At("l32")
    /\ pc' = "l26"
    /\ UNCHANGED <<argc, proc, exitStatus, handlers, sigVars, ioVars, cpuVars>>

\* line 34: fprintf(stderr, "killed by signal %d\n", caught_signal).
\* caught_signal is a plain int written by the handler, so the value passed
\* is the one line 26 loaded (kept in a register) or a fresh load.
Diagnostic ==
    /\ At("l34")
    /\ \E v \in {checked, caught_signal} :
           stderr' = stderr \o <<"killed by signal ">> \o FormatLine(v)
    /\ pc' = "l35"
    /\ UNCHANGED <<argc, proc, exitStatus, handlers, sigVars, cpuVars>>
    /\ UNCHANGED <<fp, fbuf, file, stdout, fileLog, opensAfter>>

\* main ended with `return EXIT_FAILURE`
ReturnMainFailure ==
    /\ At("l35")
    /\ proc' = "exited"
    /\ exitStatus' = EXIT_FAILURE
    /\ UNCHANGED <<argc, pc, handlers, sigVars, ioVars, cpuVars>>

\* line 35: main's closing brace returns 0
ReturnMain ==
    /\ At("l35")
    /\ proc' = "exited"
    /\ exitStatus' = EXIT_SUCCESS
    /\ UNCHANGED <<argc, pc, handlers, sigVars, ioVars, cpuVars>>

MainStep ==
    \/ CheckArgs \/ Usage \/ ReturnFailure
    \/ InstallSIGINT \/ InstallSIGHUP \/ InstallSIGTERM
    \/ InitState \/ LoopEnter \/ LoopExit
    \/ Fopen \/ PrintStdout \/ EvalArg \/ PrintFile \/ Fflush \/ Fclose
    \/ Sleep \/ Diagnostic \/ ReturnMain

(***************************************************************************)
(* Signals                                                                 *)
(***************************************************************************)
\* lines 10-12: interrupt_handler(sig) runs; the handler stays installed
\* (signal() with BSD semantics)
Caught(sig) ==
    /\ sig \in handlers
    /\ caught_signal' = sig
    /\ firstCaught' = IF firstCaught = 0 THEN sig ELSE firstCaught
    /\ caughtOpen' = (caughtOpen \/ fp = "open")
    /\ UNCHANGED <<pc, proc, termsig>>

\* no handler, and the default action terminates the process
Killed(sig) ==
    /\ sig \notin handlers
    /\ DefaultAction(sig) = "terminate"
    /\ proc' = "killed"
    /\ termsig' = sig
    /\ UNCHANGED <<pc, caught_signal, firstCaught, caughtOpen>>

\* no handler, and the default action discards the signal
Ignored(sig) ==
    /\ sig \notin handlers
    /\ DefaultAction(sig) = "ignore"
    /\ UNCHANGED <<pc, proc, termsig, caught_signal, firstCaught, caughtOpen>>

\* a handler that reports the signal itself
DeliverAndPrint(sig) ==
    /\ proc = "running"
    /\ nsig < MaxSignals
    /\ nsig' = nsig + 1
    /\ \/ Caught(sig) /\ stderr' = stderr \o <<"caught ">> \o FormatLine(sig)
       \/ Killed(sig) /\ UNCHANGED stderr
       \/ Ignored(sig) /\ UNCHANGED stderr
    /\ UNCHANGED <<argc, exitStatus, handlers, cpuVars>>
    /\ UNCHANGED <<fp, fbuf, file, stdout, fileLog, opensAfter>>

Deliver(sig) ==
    /\ proc = "running"
    /\ nsig < MaxSignals
    /\ nsig' = nsig + 1
    /\ \/ Caught(sig)
       \/ Killed(sig)
       \/ Ignored(sig)
    /\ UNCHANGED <<argc, exitStatus, handlers, ioVars, cpuVars>>

Signal == \E sig \in Signals : Deliver(sig)

Next == MainStep \/ Signal

Spec == Init /\ [][Next]_vars

\* the main thread keeps running while it can: the scheduler does not
\* starve it, and sleep and the stdio calls return
LiveSpec == Init /\ [][Next]_vars /\ WF_vars(MainStep)


(***************************************************************************)
(* Reading text back: lines and the integers they spell.                   *)
(***************************************************************************)
DigitSet == {Digits[i] : i \in 1..10}

DigitValue(c) == (CHOOSE i \in 1..10 : Digits[i] = c) - 1

\* the positions of the newlines of a text, in increasing order
RECURSIVE NewlinesFrom(_, _)
NewlinesFrom(text, i) ==
    IF i > Len(text) THEN <<>>
    ELSE IF text[i] = "\n" THEN <<i>> \o NewlinesFrom(text, i + 1)
    ELSE NewlinesFrom(text, i + 1)

\* the i-th complete line of a text, without its newline
Line(text, i) ==
    LET nl == NewlinesFrom(text, 1)
        from == IF i = 1 THEN 1 ELSE nl[i - 1] + 1
    IN  SubSeq(text, from, nl[i] - 1)

\* every token belongs to a newline-terminated line
NewlineTerminated(text) == text = <<>> \/ text[Len(text)] = "\n"

\* s spells a decimal integer: an optional sign and at least one digit
IsDecimal(s) ==
    LET body == IF s # <<>> /\ s[1] = "-" THEN Tail(s) ELSE s
    IN  /\ body # <<>>
        /\ \A i \in 1..Len(body) : body[i] \in DigitSet

RECURSIVE NatOf(_)
NatOf(s) ==
    IF s = <<>> THEN 0
    ELSE NatOf(SubSeq(s, 1, Len(s) - 1)) * 10 + DigitValue(s[Len(s)])

\* the integer a decimal line spells
IntOf(s) == IF s[1] = "-" THEN -NatOf(Tail(s)) ELSE NatOf(s)

\* line i of the text is the decimal integer n
LineIs(text, i, n) == IsDecimal(Line(text, i)) /\ IntOf(Line(text, i)) = n

\* the text is exactly one line holding the decimal integer n
OneLineIs(text, n) ==
    NewlineTerminated(text) /\ NumLines(text) = 1 /\ LineIs(text, 1, n)

\* the value written by the most recent write to the target file's stream
LastWritten == IntOf(Line(fileLog, NumLines(fileLog)))

\* the value of the last line of standard output
LastEchoed == IntOf(Line(stdout, NumLines(stdout)))

UsageLine == <<"usage: ", "argv[0]", " <file>", "\n">>

(***************************************************************************)
(* C1: the n-th cycle (from 0) writes the decimal value n to standard      *)
(* output and to the target file: 0, 1, 2, ... with no gap, repeat or      *)
(* restart, for every n and whenever signals arrive.                       *)
(***************************************************************************)
C1_CountsFromZero ==
    /\ NewlineTerminated(stdout) /\ NewlineTerminated(fileLog)
    /\ \A i \in 1..NumLines(stdout) : LineIs(stdout, i, i - 1)
    /\ \A i \in 1..NumLines(fileLog) : LineIs(fileLog, i, i - 1)

C3_UsageError ==
    argc # 2 =>
        /\ handlers = {} /\ caught_signal = 0
        /\ pc \in {"l16", "l17", "l18"}
        /\ stdout = <<>> /\ fileLog = <<>> /\ fp = "closed"
        /\ file \in InitialFiles
        /\ stderr = IF pc = "l18" THEN UsageLine ELSE <<>>
        /\ exitStatus \in {-1, EXIT_FAILURE}
        /\ proc = "exited" => exitStatus = EXIT_FAILURE /\ stderr = UsageLine

\* a run with two arguments has returned, the other file left as it was
C3_Witness ==
    /\ argc = 3 /\ proc = "exited" /\ exitStatus = EXIT_FAILURE
    /\ stderr = UsageLine /\ file.data = <<"7", "\n", "8", "\n">>

(***************************************************************************)
(* The shutdown path.                                                      *)
(***************************************************************************)
\* a recognized signal has been recorded and all three handlers are in place
ShutdownPending ==
    proc = "running" /\ caught_signal # 0 /\ Recognized \subseteq handlers

\* standard error is exactly one line, "killed by signal <decimal>"
OneDiagnostic ==
    /\ NewlineTerminated(stderr) /\ NumLines(stderr) = 1
    /\ stderr[1] = "killed by signal "
    /\ IsDecimal(Tail(Line(stderr, 1)))

\* the signal number the diagnostic line prints
PrintedSignal == IntOf(Tail(Line(stderr, 1)))

\* main has returned success after writing the one diagnostic line
GracefulExit ==
    proc = "exited" /\ exitStatus = EXIT_SUCCESS /\ OneDiagnostic

(***************************************************************************)
(* C4, as claimed: in a run with one argument, once a recognized signal    *)
(* has been delivered with the handlers installed, the process leaves the  *)
(* loop, writes exactly one diagnostic line and exits with success.  A     *)
(* process that is bound to exit that way never ends in any other way:     *)
(* whenever it has stopped running, it has exited gracefully.              *)
(***************************************************************************)
C4_AlwaysEndsGracefully ==
    (argc = 2 /\ caught_signal # 0 /\ Recognized \subseteq handlers
        /\ proc # "running") => GracefulExit

(***************************************************************************)
(* C4, amended: in a run with one argument, once a recognized signal has   *)
(* been recorded with the handlers installed, the process eventually       *)
(* leaves the loop, writes exactly one diagnostic line and exits with      *)
(* success, unless a signal outside the recognized set terminates it       *)
(* first; it never exits with failure status, never writes more than one   *)
(* diagnostic line, and has written exactly one when it exits.             *)
(***************************************************************************)
C4_ShutdownUnlessKilled ==
    /\ ShutdownPending ~>
           (GracefulExit \/ (proc = "killed" /\ termsig \notin Recognized))
    /\ [](argc = 2 => exitStatus # EXIT_FAILURE /\ NumLines(stderr) <= 1)
    /\ []((argc = 2 /\ proc = "exited") => GracefulExit)
    /\ []((argc = 2 /\ stderr # <<>>) => (pc = "l35" /\ OneDiagnostic))

\* a graceful exit after SIGTERM arrived in the second cycle, file open
C4_Witness ==
    /\ GracefulExit /\ argc = 2 /\ nsig = 1 /\ caughtOpen
    /\ PrintedSignal = SIGTERM /\ NumLines(stdout) = 2

(***************************************************************************)
(* C5: the diagnostic line prints the signal whose recording made the      *)
(* loop's check fail, which is the first recognized signal to arrive,      *)
(* also when further recognized signals arrive later.                      *)
(***************************************************************************)
C5_PrintsFirstSignal ==
    (argc = 2 /\ pc = "l35") => (OneDiagnostic /\ PrintedSignal = firstCaught)

(***************************************************************************)
(* C6: caught_signal is set at most once: it is 0 until the first          *)
(* recognized signal arrives, takes that signal's number, and never        *)
(* changes again.                                                          *)
(***************************************************************************)
C6_SetAtMostOnce == caught_signal = firstCaught

(***************************************************************************)
(* C7, as claimed: a signal outside the recognized set is never            *)
(* intercepted; delivering it leaves caught_signal and standard error as   *)
(* they are and terminates the process, wherever in the cycle it is.       *)
(***************************************************************************)
C7_UnrecognizedTerminates ==
    [][\A sig \in Signals \ Recognized :
          Deliver(sig) =>
              /\ caught_signal' = caught_signal /\ stderr' = stderr
              /\ proc' = "killed" /\ termsig' = sig]_vars

(***************************************************************************)
(* C7, amended: a signal outside the recognized set is never intercepted;  *)
(* delivering it leaves caught_signal and every output as they are; if     *)
(* its default action is to terminate, the process is terminated without   *)
(* a diagnostic being written then or later, wherever in the cycle it is;  *)
(* if its default action is to ignore, the run goes on unaffected.         *)
(***************************************************************************)
C7_UnrecognizedDefault ==
    /\ [][\A sig \in Signals \ Recognized :
             Deliver(sig) =>
                 /\ UNCHANGED <<caught_signal, firstCaught, caughtOpen, handlers>>
                 /\ UNCHANGED <<stdout, stderr, file, fileLog, pc, state>>
                 /\ DefaultAction(sig) = "terminate" =>
                        (proc' = "killed" /\ termsig' = sig)
                 /\ DefaultAction(sig) = "ignore" =>
                        UNCHANGED <<proc, termsig>>]_vars
    /\ [][proc = "killed" => UNCHANGED vars]_vars
    /\ [](termsig # 0 <=> proc = "killed")
    /\ [](proc = "killed" =>
              (termsig \notin handlers /\ DefaultAction(termsig) = "terminate"))

\* SIGQUIT has killed the process in the middle of a cycle, with a
\* recognized signal already recorded and no diagnostic written
C7_Witness ==
    /\ proc = "killed" /\ termsig = SIGQUIT /\ caught_signal = SIGINT
    /\ pc = "l30" /\ stderr = <<>>

(***************************************************************************)
(* C8, as claimed: once the program has opened it, the target file holds   *)
(* nothing (only between the fopen and the fprintf of the same cycle) or   *)
(* exactly one newline-terminated decimal integer line.                    *)
(***************************************************************************)
FileTouched == fp = "open" \/ fileLog # <<>>

OneDecimalLine(text) ==
    /\ NewlineTerminated(text) /\ NumLines(text) = 1
    /\ IsDecimal(Line(text, 1))

C8_EmptyOnlyBeforeWrite ==
    FileTouched =>
        /\ file.exists
        /\ \/ file.data = <<>> /\ fp = "open" /\ pc \in {"l28", "l29", "l29call"}
           \/ OneDecimalLine(file.data)

(***************************************************************************)
(* C8, amended: once the program has opened it, the target file holds      *)
(* nothing (only between the fopen and the fflush of the same cycle) or    *)
(* exactly one newline-terminated decimal integer line; never two lines    *)
(* or the values of two cycles.                                            *)
(***************************************************************************)
C8_EmptyOnlyBeforeFlush ==
    FileTouched =>
        /\ file.exists
        /\ \/ /\ file.data = <<>> /\ fp = "open"
              /\ pc \in {"l28", "l29", "l29call", "l30"}
           \/ /\ OneDecimalLine(file.data)
              /\ pc \in {"l31", "l32", "l26", "l27", "l34", "l35"}

\* a later cycle has written its line to the stream and not yet flushed it
C8_Witness ==
    /\ pc = "l30" /\ proc = "running" /\ file.data = <<>>
    /\ fbuf = FormatLine(INT_MIN) /\ NumLines(fileLog) > INT_MAX

(***************************************************************************)
(* C9: line 26 never lets the loop continue while caught_signal is set:    *)
(* after it is set at most one more fopen happens (that of a cycle whose   *)
(* check had passed before), and no cycle starts after that.               *)
(***************************************************************************)
C9_ObservedAtNextCheck ==
    /\ [][caught_signal # 0 => ~(pc = "l26" /\ pc' = "l27")]_vars
    /\ [](opensAfter <= 1)
    /\ []((caught_signal # 0 /\ opensAfter = 1) => pc # "l27")
    /\ []((caught_signal # 0 /\ pc \in {"l26", "l34", "l35"}) =>
              fp = "closed")

\* a signal arrived between the check and the fopen, and the loop was left
\* after that one cycle
C9_Witness == pc = "l34" /\ opensAfter = 1 /\ NumLines(stdout) = 3

(***************************************************************************)
(* C10: a recognized signal arriving in the middle of a cycle does not     *)
(* abort it: when the loop has been left, every cycle that opened the      *)
(* file has written, flushed and closed it, and after at least one cycle   *)
(* the file holds exactly "k\n", k being the last value on standard        *)
(* output.                                                                 *)
(***************************************************************************)
C10_CycleCompletes ==
    (argc = 2 /\ pc \in {"l34", "l35"}) =>
        /\ fp = "closed" /\ fbuf = <<>>
        /\ NumLines(fileLog) = NumLines(stdout)
        /\ stdout # <<>> =>
               (file.exists /\ OneLineIs(file.data, LastEchoed))

\* a graceful exit after a signal that arrived while the file was open
C10_Witness ==
    /\ GracefulExit /\ caughtOpen /\ opensAfter = 0
    /\ file.data = FormatLine(10) /\ LastEchoed = 10


(***************************************************************************)
(* C11: the signal handler only records which signal arrived: every        *)
(* invocation of interrupt_handler sets caught_signal to its argument and  *)
(* leaves the counter, the target file and its stream, standard output,    *)
(* standard error and main's position as they are.                         *)
(***************************************************************************)
C11_HandlerOnlyRecords ==
    [][\A sig \in Signals :
          (Deliver(sig) /\ sig \in handlers) =>
              /\ caught_signal' = sig
              /\ UNCHANGED <<state, arg, checked, pc, proc, exitStatus>>
              /\ UNCHANGED <<fp, fbuf, file, fileLog, stdout, stderr>>
              /\ UNCHANGED <<handlers, argc>>]_vars

\* the handler has run for SIGINT between the write to the stream and the
\* flush, and main stands where it stood
C11_Witness ==
    /\ proc = "running" /\ pc = "l30" /\ caughtOpen
    /\ caught_signal = SIGINT /\ firstCaught = SIGINT /\ nsig = 1
    /\ fbuf = FormatLine(1) /\ state = 2


C13_EchoBetweenOpenAndWrite ==
    /\ NumLines(stdout) - NumLines(fileLog) \in {0, 1}
    /\ NumLines(stdout) = NumLines(fileLog) + 1 <=>
           (argc = 2 /\ pc \in {"l29", "l29call"})
    /\ NumLines(stdout) = NumLines(fileLog) + 1 =>
           (fp = "open" /\ file.data = <<>> /\ fbuf = <<>>)
    /\ (FileTouched /\ file.data # <<>>) =>
           /\ stdout # <<>>
           /\ IsDecimal(Line(file.data, 1))
           /\ LastEchoed >= IntOf(Line(file.data, 1))

\* the cycle after the overflow has echoed INT_MIN and not yet written it:
\* the file, truncated by the open, no longer holds INT_MAX
C13_Witness ==
    /\ proc = "running" /\ pc = "l29" /\ LastEchoed = INT_MIN
    /\ LastWritten = INT_MAX /\ file.data = <<>>


(***************************************************************************)
(* C14: the counter is a non-negative integer in every reachable state     *)
(* and never decreases or resets, for runs of any length: incrementing     *)
(* the fixed-width int past its maximum never yields a negative or         *)
(* smaller value written to the file or to standard output.                *)
(***************************************************************************)
C14_CounterNeverNegative ==
    /\ state >= 0
    /\ \A i \in 1..NumLines(stdout) : IntOf(Line(stdout, i)) >= 0
    /\ \A i \in 1..NumLines(fileLog) : IntOf(Line(fileLog, i)) >= 0
    /\ \A i \in 2..NumLines(stdout) :
           IntOf(Line(stdout, i)) > IntOf(Line(stdout, i - 1))
    /\ \A i \in 2..NumLines(fileLog) :
           IntOf(Line(fileLog, i)) > IntOf(Line(fileLog, i - 1))


(***************************************************************************)
(* A recognized signal has been recorded with the three handlers in place  *)
(* and line 26 has not run yet.                                            *)
(***************************************************************************)
EarlySignal ==
    /\ argc = 2 /\ Recognized \subseteq handlers /\ caught_signal # 0
    /\ pc \in {"l25", "l26"} /\ stdout = <<>>

\* the loop body has not run: no file, no output, and main is at the
\* check or past the loop
NoCycle ==
    /\ stdout = <<>> /\ fileLog = <<>> /\ fp = "closed" /\ fbuf = <<>>
    /\ file \in InitialFiles
    /\ pc \in {"l25", "l26", "l34", "l35"}
    /\ exitStatus # EXIT_FAILURE
    /\ stderr # <<>> => OneDiagnostic
    /\ proc = "exited" => GracefulExit

(***************************************************************************)
(* C15, as claimed: if a recognized signal is recorded after the handlers  *)
(* are installed and before the loop's first check, the loop body runs     *)
(* zero times and the process still writes the one diagnostic line and     *)
(* exits with success: it never ends in any other way.                     *)
(***************************************************************************)
C15_EarlySignalEndsGracefully ==
    (EarlySignal /\ proc # "running") => GracefulExit

(***************************************************************************)
(* C15, amended: if a recognized signal is recorded after the handlers     *)
(* are installed and before the loop's first check, the loop body runs     *)
(* zero times: the target file is never created, truncated or written,     *)
(* nothing is written to standard output, and the process writes the one   *)
(* diagnostic line and exits with success, unless a signal outside the     *)
(* recognized set terminates it first.                                     *)
(***************************************************************************)
C15_EarlySignalSkipsLoop ==
    /\ [](EarlySignal => []NoCycle)
    /\ (EarlySignal /\ proc = "running") ~>
           (GracefulExit \/ (proc = "killed" /\ termsig \notin Recognized))

\* SIGHUP arrived before the first check: main has returned, the file
\* somebody else left is as it was and nothing was echoed
C15_Witness ==
    /\ GracefulExit /\ stdout = <<>> /\ fileLog = <<>>
    /\ PrintedSignal = SIGHUP /\ nsig = 1
    /\ file = [exists |-> TRUE, data |-> <<"7", "\n", "8", "\n">>]


(***************************************************************************)
(* C16: the diagnostic line is written only after the loop has been left   *)
(* with caught_signal set, and it is the last output of the process: the   *)
(* number it prints is one of the three recognized signals, never 0, and   *)
(* no write to standard output and no open or write of the target file     *)
(* follows it.                                                             *)
(***************************************************************************)
C16_DiagnosticIsLast ==
    /\ []((argc = 2 /\ stderr # <<>>) =>
              /\ pc = "l35" /\ OneDiagnostic
              /\ PrintedSignal \in Recognized
              /\ checked # 0 /\ caught_signal # 0
              /\ fp = "closed" /\ fbuf = <<>>)
    /\ [][(argc = 2 /\ stderr # <<>>) =>
              UNCHANGED <<stdout, stderr, file, fileLog, fp, fbuf, pc>>]_vars
    /\ [][(argc = 2 /\ stderr' # stderr) =>
              (pc = "l34" /\ caught_signal # 0 /\ checked # 0)]_vars

\* main has returned after three cycles; the line names SIGTERM, the
\* signal loaded by line 26, though SIGHUP was recorded after it
C16_Witness ==
    /\ GracefulExit /\ NumLines(stdout) = 3
    /\ PrintedSignal = SIGTERM /\ caught_signal = SIGHUP

=============================================================================
